---- MODULE Spec2Model ----
(***************************************************************************)
(* Model of the jam-track audio pipeline of the Fortnite item shop         *)
(* scraper: AudioProcessorService.parsePlaylistXML (manifest parsing and   *)
(* segment URL generation), AudioProcessorService.fetchAudioSegments       *)
(* (sequential fetch, sort, concatenation) and the JamTracksService /      *)
(* router entry points that call them.                                     *)
(*                                                                         *)
(* Strings are sequences of one-character strings, so that parseInt, the   *)
(* PT<seconds>S regular expression, String.replace and Number.toString are *)
(* computed character by character as the JavaScript does.  JavaScript     *)
(* numbers are records: a finite rational n/d, NaN, or a signed infinity.  *)
(***************************************************************************)
EXTENDS Integers, Sequences, FiniteSets, TLC

(***************************************************************************)
(* Bounds of the model.                                                    *)
(***************************************************************************)
\* the for loop of parsePlaylistXML is followed for at most MaxGen pushes;
\* every finite totalSegments of DocSet is smaller
MaxGen == 8
\* longest segment list handed directly to fetchAudioSegments
MaxLen == 3
\* largest segment number of those lists
MaxNum == 1

(***************************************************************************)
(* JavaScript numbers.                                                     *)
(***************************************************************************)
NaN == [t |-> "NaN", n |-> 0, d |-> 1]
Abs(x) == IF x < 0 THEN -x ELSE x
Sign(x) == IF x < 0 THEN -1 ELSE IF x > 0 THEN 1 ELSE 0

RECURSIVE Gcd(_, _)
Gcd(a, b) == IF b = 0 THEN a ELSE Gcd(b, a % b)

\* the finite number n/d (d # 0), in lowest terms with a positive denominator
Num(n, d) ==
  LET g == Gcd(Abs(n), Abs(d))
      s == IF d < 0 THEN -1 ELSE 1
  IN [t |-> "num", n |-> (s * n) \div g, d |-> (s * d) \div g]

IsFinite(x) == x.t = "num"
IsInteger(x) == x.t = "num" /\ x.d = 1

\* IEEE-754 division a / b (negative zero does not arise: no operand of the
\* model is negative where the other is zero)
Div(a, b) ==
  IF a.t = "NaN" \/ b.t = "NaN" THEN NaN
  ELSE IF a.t = "Inf"
    THEN IF b.t = "Inf" THEN NaN
         ELSE IF b.n < 0 THEN [t |-> "Inf", n |-> -a.n, d |-> 1] ELSE a
  ELSE IF b.t = "Inf" THEN Num(0, 1)
  ELSE IF b.n = 0
    THEN IF a.n = 0 THEN NaN ELSE [t |-> "Inf", n |-> Sign(a.n), d |-> 1]
  ELSE Num(a.n * b.d, a.d * b.n)

\* Math.ceil
Ceil(a) == IF a.t = "num" THEN Num(-((-a.n) \div a.d), 1) ELSE a

\* a + b
Add(a, b) ==
  IF a.t = "NaN" \/ b.t = "NaN" THEN NaN
  ELSE IF a.t = "Inf"
    THEN IF b.t = "Inf" /\ b.n # a.n THEN NaN ELSE a
  ELSE IF b.t = "Inf" THEN b
  ELSE Num(a.n * b.d + b.n * a.d, a.d * b.d)

\* a < b (false whenever an operand is NaN)
Lt(a, b) ==
  IF a.t = "NaN" \/ b.t = "NaN" THEN FALSE
  ELSE IF a.t = "Inf" THEN a.n < 0 /\ ~(b.t = "Inf" /\ b.n < 0)
  ELSE IF b.t = "Inf" THEN b.n > 0
  ELSE a.n * b.d < b.n * a.d

(***************************************************************************)
(* Strings.                                                                *)
(***************************************************************************)
Digits == {"0", "1", "2", "3", "4", "5", "6", "7", "8", "9"}
DigitVal(c) ==
  CASE c = "0" -> 0 [] c = "1" -> 1 [] c = "2" -> 2 [] c = "3" -> 3
    [] c = "4" -> 4 [] c = "5" -> 5 [] c = "6" -> 6 [] c = "7" -> 7
    [] c = "8" -> 8 [] c = "9" -> 9
DigitChar(k) ==
  CASE k = 0 -> "0" [] k = 1 -> "1" [] k = 2 -> "2" [] k = 3 -> "3"
    [] k = 4 -> "4" [] k = 5 -> "5" [] k = 6 -> "6" [] k = 7 -> "7"
    [] k = 8 -> "8" [] k = 9 -> "9"

\* number of digit characters of s from position i on
RECURSIVE DigitRun(_, _)
DigitRun(s, i) ==
  IF i <= Len(s) /\ s[i] \in Digits THEN 1 + DigitRun(s, i + 1) ELSE 0

\* value of the decimal digits s[i .. j]
RECURSIVE DigitsValue(_, _, _)
DigitsValue(s, i, j) ==
  IF j < i THEN 0 ELSE 10 * DigitsValue(s, i, j - 1) + DigitVal(s[j])

RECURSIVE Pow10(_)
Pow10(k) == IF k = 0 THEN 1 ELSE 10 * Pow10(k - 1)

\* parseInt(s): optional sign, then the longest prefix of decimal digits;
\* NaN when there is none
parseInt(s) ==
  LET signed == Len(s) > 0 /\ s[1] \in {"-", "+"}
      from == IF signed THEN 2 ELSE 1
      k == DigitRun(s, from)
      v == DigitsValue(s, from, from + k - 1)
  IN IF k = 0 THEN NaN
     ELSE IF signed /\ s[1] = "-" THEN Num(-v, 1) ELSE Num(v, 1)

\* Number.prototype.toString of an integer
RECURSIVE NatToString(_)
NatToString(k) ==
  IF k < 10 THEN <<DigitChar(k)>>
  ELSE NatToString(k \div 10) \o <<DigitChar(k % 10)>>
toString(k) == IF k < 0 THEN <<"-">> \o NatToString(-k) ELSE NatToString(k)

\* String.prototype.indexOf, 1-based; 0 when pat does not occur
IndexOf(s, pat) ==
  LET hits == {i \in 1..(Len(s) - Len(pat) + 1) :
                 SubSeq(s, i, i + Len(pat) - 1) = pat}
  IN IF hits = {} THEN 0 ELSE CHOOSE i \in hits : \A j \in hits : i <= j

\* String.prototype.replace with a string pattern: the first occurrence only
replace(s, pat, rep) ==
  LET i == IndexOf(s, pat)
  IN IF i = 0 THEN s
     ELSE SubSeq(s, 1, i - 1) \o rep \o SubSeq(s, i + Len(pat), Len(s))

\* a || b on strings: the empty string is falsy
OrElse(a, b) == IF a = <<>> THEN b ELSE a

RepresentationID ==
  <<"$", "R", "e", "p", "r", "e", "s", "e", "n", "t", "a", "t", "i", "o", "n", "I", "D", "$">>
Number == <<"$", "N", "u", "m", "b", "e", "r", "$">>


(***************************************************************************)
(* The manifest document handed to parsePlaylistXML.  An attribute that is *)
(* absent reads as the empty string (xmldom's getAttribute returns "" for  *)
(* a missing attribute, and a missing MPD element makes the optional chain *)
(* undefined: both are falsy).                                             *)
(***************************************************************************)
s1000 == <<"1", "0", "0", "0">>
PT5p5S == <<"P", "T", "5", ".", "5", "S">>
PT2S == <<"P", "T", "2", "S">>
PT0S == <<"P", "T", "0", "S">>
PT1M30S == <<"P", "T", "1", "M", "3", "0", "S">>
initTemplate == <<"i", "-">> \o RepresentationID
segTemplate ==
  <<"s", "e", "g", "-">> \o Number \o <<"-">> \o RepresentationID \o <<".", "m", "4", "s">>
repTwiceTemplate == RepresentationID \o <<"/">> \o RepresentationID \o <<"-">> \o Number
timeTemplate == <<"$", "T", "i", "m", "e", "$">> \o Number \o Number

NoBaseURL == [present |-> FALSE, textContent |-> <<>>]
BaseURLs == {NoBaseURL, [present |-> TRUE, textContent |-> <<>>],
             [present |-> TRUE, textContent |-> <<"b", "/">>]}

Doc(base, tpl, dur, ts, ini, med, start, mpd) ==
  [BaseURL |-> base, SegmentTemplate |-> tpl, duration |-> dur, timescale |-> ts,
   initialization |-> ini, media |-> med, startNumber |-> start,
   mediaPresentationDuration |-> mpd]

\* a document without SegmentTemplate element
NoTemplateDoc == Doc(NoBaseURL, FALSE, <<>>, <<>>, <<>>, <<>>, <<>>, PT2S)

\* the documents of the parser specification
DocSet ==
  {Doc(b, FALSE, <<>>, <<>>, <<>>, <<>>, <<>>, PT2S) : b \in BaseURLs}
  \cup
  {Doc(b, TRUE, dur, ts, ini, med, start, mpd) :
     b \in BaseURLs,
     dur \in {<<>>, <<"0">>, s1000},
     ts \in {<<>>, <<"0">>, s1000},
     ini \in {<<>>, initTemplate},
     med \in {<<>>, segTemplate, repTwiceTemplate, timeTemplate},
     start \in {<<>>, <<"0">>, <<"1">>, <<"5">>, <<"-", "1">>, <<"a">>},
     mpd \in {<<>>, PT5p5S, PT2S, PT0S, PT1M30S}}

(***************************************************************************)
(* parsePlaylistXML: the values read from the document.                    *)
(***************************************************************************)
\* const actualBaseUrl = baseUrlElement ? baseUrlElement.textContent || baseUrl : baseUrl
actualBaseUrlIgnoringElement(doc, baseUrl) == baseUrl
actualBaseUrl(doc, baseUrl) ==
  IF doc.BaseURL.present THEN OrElse(doc.BaseURL.textContent, baseUrl) ELSE baseUrl

\* xmlDoc.getElementsByTagName("SegmentTemplate")[0] is found
segmentTemplateAssumed(doc) == TRUE
segmentTemplate(doc) == doc.SegmentTemplate

duration(doc) == parseInt(OrElse(doc.duration, <<"0">>))
timescale(doc) == parseInt(OrElse(doc.timescale, <<"1">>))
initialization(doc) == OrElse(doc.initialization, <<>>)
media(doc) == OrElse(doc.media, <<>>)
startNumber(doc) == parseInt(OrElse(doc.startNumber, <<"1">>))

segmentDuration(doc) == Div(duration(doc), timescale(doc))
totalDuration(doc) == segmentDuration(doc)

\* mediaPresentationDuration.match(/PT(\d+(?:\.\d+)?)S/) tried at position i:
\* the capture group as <<from, to>>, or <<0, 0>> when it does not match there
matchAt(s, i) ==
  IF ~(i + 1 <= Len(s) /\ s[i] = "P" /\ s[i + 1] = "T") THEN <<0, 0>>
  ELSE LET k1 == DigitRun(s, i + 2)
           e1 == i + 2 + k1
           k2 == IF e1 <= Len(s) /\ s[e1] = "." THEN DigitRun(s, e1 + 1) ELSE 0
           e2 == e1 + 1 + k2
       IN IF k1 = 0 THEN <<0, 0>>
          ELSE IF e1 <= Len(s) /\ s[e1] = "S" THEN <<i + 2, e1 - 1>>
          ELSE IF k2 > 0 /\ e2 <= Len(s) /\ s[e2] = "S" THEN <<i + 2, e2 - 1>>
          ELSE <<0, 0>>

\* the first match of the (unanchored) expression in s
match(s) ==
  LET hits == {i \in 1..Len(s) : matchAt(s, i) # <<0, 0>>}
  IN IF hits = {} THEN <<0, 0>>
     ELSE matchAt(s, CHOOSE i \in hits : \A j \in hits : i <= j)

\* parseFloat of digits with an optional fraction
parseFloat(s) ==
  LET k1 == DigitRun(s, 1)
      k2 == IF k1 + 1 <= Len(s) /\ s[k1 + 1] = "." THEN DigitRun(s, k1 + 2) ELSE 0
  IN Num(DigitsValue(s, 1, k1) * Pow10(k2) + DigitsValue(s, k1 + 2, k1 + 1 + k2),
         Pow10(k2))

actualTotalDuration(doc) ==
  LET mpd == doc.mediaPresentationDuration
      m == match(mpd)
  IN IF mpd # <<>> /\ m # <<0, 0>>
       THEN parseFloat(SubSeq(mpd, m[1], m[2]))
       ELSE totalDuration(doc)

totalSegments(doc) == Ceil(Div(actualTotalDuration(doc), segmentDuration(doc)))

\* the init segment pushed when the initialization template is not empty
initSegment(doc, baseUrl) ==
  [type |-> "init",
   url |-> actualBaseUrl(doc, baseUrl) \o replace(initialization(doc), RepresentationID, <<"0">>),
   number |-> 0]

\* the media segment pushed for loop value i
mediaSegment(doc, baseUrl, i) ==
  [type |-> "media",
   url |-> actualBaseUrl(doc, baseUrl)
             \o replace(replace(media(doc), RepresentationID, <<"0">>), Number, toString(i)),
   number |-> i]

\* the loop condition i < startNumber + totalSegments
loopCondition(doc, i) == Lt(i, Add(startNumber(doc), totalSegments(doc)))

\* the PlaylistInfo returned
PlaylistInfo(doc, baseUrl, segs) ==
  [baseUrl |-> actualBaseUrl(doc, baseUrl),
   totalDuration |-> totalDuration(doc),
   segmentDuration |-> segmentDuration(doc),
   totalSegments |-> totalSegments(doc),
   segments |-> segs]

NoPlaylistInfo ==
  [baseUrl |-> <<>>, totalDuration |-> NaN, segmentDuration |-> NaN,
   totalSegments |-> NaN, segments |-> <<>>]


(***************************************************************************)
(* State.  Every variable is a function of the request: each call of       *)
(* parsePlaylistXML / fetchAudioSegments owns its locals.                  *)
(***************************************************************************)
Req == {1, 2}

VARIABLES
  xmlContent,      \* parsePlaylistXML: the document argument
  baseUrl,         \* parsePlaylistXML: the fallback base URL argument
  ppc,             \* parsePlaylistXML: "idle", "start", "init", "media", "returned", "threw"
  segments,        \* parsePlaylistXML: the local segments array
  i,               \* parsePlaylistXML: the loop variable (a JavaScript number)
  playlistInfo,    \* parsePlaylistXML: the value returned
  segmentsArg,     \* fetchAudioSegments: the segments argument
  fpc,             \* fetchAudioSegments: "idle", "loop", "await", "done"
  idx,             \* fetchAudioSegments: position of the for-of loop in segmentsArg
  audioBuffers,    \* fetchAudioSegments: the local audioBuffers array
  failedSegments,  \* fetchAudioSegments: the local failedSegments array
  combinedBuffer,  \* fetchAudioSegments: the Buffer returned
  requests,        \* network: positions of segmentsArg passed to axios.get, in order
  responses,       \* network: the outcome of each of these requests, in order
  net,             \* network: the outcome scripted for each position (SpecFetch)
  inflight,        \* network: positions whose request is issued and not settled
  route,           \* request: "process" (POST /), "audio" (POST /audio), "stream" (POST /stream)
  url,             \* request: the body url: "missing", "other", "qsep" (starts with qsep://)
                   \* or "nonString" (a JSON number: truthy, has no startsWith)
  pc,              \* request: position of its handler
  response,        \* request: the HTTP response sent
  sidx,            \* POST /stream: position of the for-of loop in playlistInfo.segments
  sink,            \* POST /stream: the bytes written to res
  piped,           \* POST /stream: bytes of the response in progress handed to res
  clientGone,      \* POST /stream: requests issued when the client disconnected, -1 before
  openPages,       \* browser: number of pages opened and not closed
  browser,         \* BrowserService: this.browser (0: null, k: the k-th browser launched)
  context,         \* BrowserService: this.context (0: null, k: the context of browser k)
  launches,        \* BrowserService: number of calls of chromium.launch
  calls,           \* BrowserService: number of calls of initBrowser
  bpc,             \* initBrowser: position of the call of each caller
  launched,        \* initBrowser: the browser the caller's chromium.launch gives
  result           \* initBrowser: the context returned to each caller

VARIABLES
  validApiKey,     \* server: process.env.API_KEY ("" when not set)
  generalHits,     \* generalRateLimit: requests of the client counted in its window
  scrapingHits,    \* scrapingRateLimit: requests of the client counted in its window
  last,            \* server: the last request of the client and what answered it
  proc,            \* server: the process, "running" or "exited"
  spc,             \* shutdown: position of the handler started by each signal
  closing,         \* close: the context or browser whose close() is awaited
  closedContexts,  \* browser: the contexts that have been closed
  closedBrowsers,  \* browser: the browsers that have been closed
  cache,           \* CacheService: this.cache
  now,             \* Date.now(), in units of TickMs
  written,         \* history: the most recent setCacheData affecting each type, if
                   \* no clearCache affecting it came since
  op               \* CacheService: the last operation called and what it returned

parseVars == <<xmlContent, baseUrl, ppc, segments, i, playlistInfo>>
fetchVars == <<segmentsArg, fpc, idx, audioBuffers, failedSegments, combinedBuffer>>
netVars == <<requests, responses, net, inflight>>
reqVars == <<route, url, pc, response, sidx, sink, piped, clientGone, openPages>>
browserVars == <<browser, context, launches, calls, bpc, launched, result>>
gateVars == <<validApiKey, generalHits, scrapingHits, last>>
shutdownVars == <<proc, spc, closing, closedContexts, closedBrowsers>>
cacheVars == <<cache, now, written, op>>
serverVars == <<gateVars, shutdownVars, cacheVars>>
serviceVars == <<browserVars, serverVars>>
vars == <<parseVars, fetchVars, netVars, reqVars, browserVars, serverVars>>

(***************************************************************************)
(* parsePlaylistXML, lines 14-109.                                         *)
(***************************************************************************)
\* lines 16-29: parse the document, look for SegmentTemplate, throw without
ParseTemplate(r) ==
  /\ ppc[r] = "start"
  /\ ppc' = [ppc EXCEPT ![r] = IF segmentTemplate(xmlContent[r]) THEN "init" ELSE "threw"]
  /\ segments' = [segments EXCEPT ![r] = <<>>]
  /\ UNCHANGED <<serviceVars, xmlContent, baseUrl, i, playlistInfo, fetchVars, netVars,
                 reqVars>>

\* lines 31-79: read the attributes, compute totalSegments, push the init
\* segment when the initialization template is not empty; let i = startNumber
ParseInit(r) ==
  /\ ppc[r] = "init"
  /\ segments' = [segments EXCEPT ![r] =
       IF initialization(xmlContent[r]) # <<>>
         THEN <<initSegment(xmlContent[r], baseUrl[r])>>
         ELSE <<>>]
  /\ i' = [i EXCEPT ![r] = startNumber(xmlContent[r])]
  /\ ppc' = [ppc EXCEPT ![r] = "media"]
  /\ UNCHANGED <<serviceVars, xmlContent, baseUrl, playlistInfo, fetchVars, netVars,
                 reqVars>>

\* number of media segments pushed so far
Pushed(r) == Len(SelectSeq(segments[r], LAMBDA sg : sg.type = "media"))

\* lines 82-91: one iteration of the for loop.  The loop is followed for
\* MaxGen pushes; with totalSegments = Infinity it never ends
ParseMedia(r) ==
  /\ ppc[r] = "media"
  /\ loopCondition(xmlContent[r], i[r])
  /\ Pushed(r) < MaxGen
  /\ segments' = [segments EXCEPT ![r] =
       Append(@, mediaSegment(xmlContent[r], baseUrl[r], i[r].n))]
  /\ i' = [i EXCEPT ![r] = Add(@, Num(1, 1))]
  /\ UNCHANGED <<serviceVars, xmlContent, baseUrl, ppc, playlistInfo, fetchVars,
                 netVars, reqVars>>

\* lines 98-104: the loop condition is false, return the PlaylistInfo
ParseReturn(r) ==
  /\ ppc[r] = "media"
  /\ ~loopCondition(xmlContent[r], i[r])
  /\ playlistInfo' = [playlistInfo EXCEPT ![r] =
       PlaylistInfo(xmlContent[r], baseUrl[r], segments[r])]
  /\ ppc' = [ppc EXCEPT ![r] = "returned"]
  /\ UNCHANGED <<serviceVars, xmlContent, baseUrl, segments, i, fetchVars, netVars,
                 reqVars>>

(***************************************************************************)
(* fetchAudioSegments, lines 114-182.                                      *)
(***************************************************************************)
\* what the segment's server does with one request: "ok" (2xx response,
\* the whole body, end of stream), "reject" (network error or non-2xx status,
\* no byte), "break" (2xx response, the bytes of data, then the connection
\* breaks), "silent" (it never responds)
Failure == [ok |-> FALSE, kind |-> "reject", data |-> <<>>]
Success(bytes) == [ok |-> TRUE, kind |-> "ok", data |-> bytes]
Broken(bytes) == [ok |-> FALSE, kind |-> "break", data |-> bytes]
Silent == [ok |-> FALSE, kind |-> "silent", data |-> <<>>]
Outcomes == {Failure, Success(<<1>>), Success(<<2, 3>>), Broken(<<4>>), Silent}

\* part_003 line 15: AUDIO_SEGMENT_TIMEOUT: 10000, the timeout option of the
\* axios.get of fetchAudioSegments; the axios.get of the relay loop passes no
\* timeout option, and the default of axios is 0: no timeout
AUDIO_SEGMENT_TIMEOUT == 10000
defaultTimeout == 0

\* the promise of axios.get(url, {timeout}) settles: the server answers, or a
\* timeout ends the wait
settles(o, timeout) == o.kind # "silent" \/ timeout > 0

NoResponse == [status |-> 0, data |-> {}, body |-> <<>>]

\* no HTTP request in progress
NoRequest ==
  /\ route = [r \in Req |-> "none"]
  /\ url = [r \in Req |-> "missing"]
  /\ pc = [r \in Req |-> "idle"]
  /\ response = [r \in Req |-> NoResponse]
  /\ sidx = [r \in Req |-> 1]
  /\ sink = [r \in Req |-> <<>>]
  /\ piped = [r \in Req |-> 0]
  /\ clientGone = [r \in Req |-> -1]
  /\ openPages = 0

\* the BrowserService before its first use
BrowserIdle ==
  /\ browser = 0
  /\ context = 0
  /\ launches = 0
  /\ calls = 0
  /\ bpc = [r \in Req |-> "idle"]
  /\ launched = [r \in Req |-> 0]
  /\ result = [r \in Req |-> 0]

\* the client has made no request in the limiters' windows
NoLast == [method |-> "", path |-> <<>>, key |-> "", status |-> 0, handler |-> "none"]

ApiKey == "k"

GateIdle ==
  /\ generalHits = 0
  /\ scrapingHits = 0
  /\ last = NoLast

\* the process runs and no signal has arrived
Sig == {"SIGINT", "SIGTERM"}

Running ==
  /\ proc = "running"
  /\ spc = [s \in Sig |-> "idle"]
  /\ closing = [s \in Sig |-> 0]
  /\ closedContexts = {}
  /\ closedBrowsers = {}

\* cache.service.ts 6-15: the CacheStore of a new CacheService.  Data are
\* JSON texts, null is the text null; a timestamp is a number of
\* milliseconds, nullTimestamp stands for null
CacheTypes == {"itemShop", "jamTracks"}
null == "null"
nullTimestamp == -1
TickMs == 600000
NoWrite == [at |-> nullTimestamp, data |-> null]
NoOp == [name |-> "", type |-> "", returned |-> null]

CacheEmpty ==
  /\ cache = [t \in CacheTypes |-> [data |-> null, timestamp |-> nullTimestamp]]
  /\ now = TickMs
  /\ written = [t \in CacheTypes |-> NoWrite]
  /\ op = NoOp

ServicesIdle ==
  /\ BrowserIdle
  /\ GateIdle
  /\ validApiKey = ApiKey
  /\ Running
  /\ CacheEmpty

\* no call of fetchAudioSegments in progress
FetchIdle ==
  /\ segmentsArg = [r \in Req |-> <<>>]
  /\ fpc = [r \in Req |-> "idle"]
  /\ idx = [r \in Req |-> 1]
  /\ audioBuffers = [r \in Req |-> <<>>]
  /\ failedSegments = [r \in Req |-> <<>>]
  /\ combinedBuffer = [r \in Req |-> <<>>]
  /\ requests = [r \in Req |-> <<>>]
  /\ responses = [r \in Req |-> <<>>]
  /\ net = [r \in Req |-> <<>>]
  /\ inflight = [r \in Req |-> {}]

\* for (const segment of segments): the position after position k of a list
\* of n segments, whatever the outcome o of its request (the catch block
\* only records the failure)
advanceAbortOnFailure(n, k, o) == IF o.ok THEN k + 1 ELSE n + 1
advance(n, k, o) == k + 1

\* the comparator (a, b) => a.number - b.number
compare(a, b) == a.number - b.number

\* Array.prototype.sort (stable): x inserted after the elements that do not
\* compare greater than it
insert(sorted, x) ==
  LET k == Cardinality({j \in 1..Len(sorted) : compare(sorted[j], x) <= 0})
  IN SubSeq(sorted, 1, k) \o <<x>> \o SubSeq(sorted, k + 1, Len(sorted))

RECURSIVE sortInsertions(_)
sortInsertions(bufs) ==
  IF bufs = <<>> THEN <<>>
  ELSE insert(sortInsertions(SubSeq(bufs, 1, Len(bufs) - 1)), bufs[Len(bufs)])

sortNothing(bufs) == bufs
sort(bufs) == sortInsertions(bufs)

\* audioBuffers.reduce((sum, buffer) => sum + buffer.data.length, 0)
RECURSIVE totalLength(_)
totalLength(bufs) ==
  IF bufs = <<>> THEN 0 ELSE Len(bufs[1].data) + totalLength(Tail(bufs))

\* Buffer.alloc(n): n zero bytes
alloc(n) == [j \in 1..n |-> 0]

\* data.copy(target, offset)
copy(data, target, offset) ==
  [j \in 1..Len(target) |->
     IF offset < j /\ j <= offset + Len(data) THEN data[j - offset] ELSE target[j]]

\* lines 168-172: every buffer copied at the running offset
RECURSIVE copyAll(_, _, _)
copyAll(bufs, target, offset) ==
  IF bufs = <<>> THEN target
  ELSE copyAll(Tail(bufs), copy(bufs[1].data, target, offset), offset + Len(bufs[1].data))

\* lines 162-172
combine(bufs) == copyAll(bufs, alloc(totalLength(bufs)), 0)

\* lines 117-118: audioBuffers and failedSegments are declared inside
\* fetchAudioSegments: the call of request r works on arrays of its own
frameShared(r) == 1
frame(r) == r

\* lines 120-128: the for-of loop calls axios.get on the next segment and
\* awaits it; o is what the segment's server does with the request
FetchSegment(r, o) ==
  /\ fpc[r] = "loop"
  /\ idx[r] <= Len(segmentsArg[r])
  /\ requests' = [requests EXCEPT ![r] = Append(@, idx[r])]
  /\ responses' = [responses EXCEPT ![r] = Append(@, o)]
  /\ inflight' = [inflight EXCEPT ![r] = @ \cup {idx[r]}]
  /\ fpc' = [fpc EXCEPT ![r] = "await"]
  /\ UNCHANGED <<serviceVars, segmentsArg, idx, audioBuffers, failedSegments, combinedBuffer, net,
                 parseVars, reqVars>>

\* line 124: for (const segment of segments) reads the elements of the
\* caller's array (playlistInfo.segments itself) and leaves it as it is
iterateReversing(segs) == [k \in 1..Len(segs) |-> segs[Len(segs) + 1 - k]]
iterate(segs) == segs

\* lines 130-148: the promise settled.  A whole body is pushed on
\* audioBuffers; a rejection, a broken body or the timeout goes to the catch
\* block, which records the number and goes on
FetchSettled(r) ==
  LET o == responses[r][Len(responses[r])]
  IN /\ fpc[r] = "await"
     /\ settles(o, AUDIO_SEGMENT_TIMEOUT)
     /\ IF o.ok
          THEN /\ audioBuffers' = [audioBuffers EXCEPT ![frame(r)] =
                    Append(@, [data |-> o.data,
                               number |-> segmentsArg[r][idx[r]].number,
                               type |-> segmentsArg[r][idx[r]].type])]
               /\ UNCHANGED failedSegments
          ELSE /\ failedSegments' = [failedSegments EXCEPT ![frame(r)] =
                    Append(@, segmentsArg[r][idx[r]].number)]
               /\ UNCHANGED audioBuffers
     /\ inflight' = [inflight EXCEPT ![r] = @ \ {idx[r]}]
     /\ idx' = [idx EXCEPT ![r] = advance(Len(segmentsArg[r]), idx[r], o)]
     /\ fpc' = [fpc EXCEPT ![r] = "loop"]
     /\ segmentsArg' = [segmentsArg EXCEPT ![r] = iterate(@)]
     /\ UNCHANGED <<serviceVars, combinedBuffer, requests, responses, net, parseVars,
                    reqVars>>

\* lines 151-177: the loop is over; sort in place, combine, return
Combine(r) ==
  /\ fpc[r] = "loop"
  /\ idx[r] > Len(segmentsArg[r])
  /\ audioBuffers' = [audioBuffers EXCEPT ![frame(r)] = sort(@)]
  /\ combinedBuffer' = [combinedBuffer EXCEPT ![r] = combine(sort(audioBuffers[frame(r)]))]
  /\ fpc' = [fpc EXCEPT ![r] = "done"]
  /\ UNCHANGED <<serviceVars, segmentsArg, idx, failedSegments, netVars, parseVars,
                 reqVars>>

(***************************************************************************)
(* The entry points: POST /api/jam-tracks (processJamTrack), POST          *)
(* /api/jam-tracks/audio (downloadJamTrackAudio) and POST                  *)
(* /api/jam-tracks/stream (streamJamTrack and the relay loop of the route).*)
(***************************************************************************)
\* the HTTP response sent: status, keys of data (processJamTrack's
\* cleanedData), bytes of the body (audio)
Reply(status, data, body) == [status |-> status, data |-> data, body |-> body]

\* what page.goto(cleanUrl) and the reading of its response give:
\* "throws" (navigation fails), "text" (no JSON content type), "json" (JSON
\* without playlist), "badPlaylist" (a playlist Buffer.from rejects),
\* "playlist" (a playlist that decodes to doc)
Answer(kind, doc) == [kind |-> kind, doc |-> doc]

GoodDoc == Doc(NoBaseURL, TRUE, s1000, s1000, initTemplate, segTemplate, <<>>, PT2S)
ZeroDurationDoc == Doc(NoBaseURL, TRUE, <<>>, s1000, initTemplate, segTemplate, <<>>, PT2S)
NegativeStartDoc ==
  Doc(NoBaseURL, TRUE, s1000, s1000, initTemplate, segTemplate, <<"-", "1">>, PT2S)
PipelineDocs == {NoTemplateDoc, GoodDoc, ZeroDurationDoc, NegativeStartDoc}

Answers ==
  {Answer(k, NoTemplateDoc) : k \in {"throws", "text", "json", "badPlaylist"}}
  \cup {Answer("playlist", d) : d \in PipelineDocs}

\* data.metadata?.baseUrls?.[0] || ""
MetadataBaseUrl == <<"f", "/">>

\* the route and the service validate the body url.  routes 223-233, 267-271,
\* 319-337; service 366-373, 462-464, 506-512.  A url that is not a string
\* passes !url and throws a TypeError at url.startsWith, inside the route's
\* (or the service's) try: the catch answers 500
Receive(r) ==
  /\ pc[r] = "new"
  /\ IF url[r] = "missing" \/ (url[r] = "other" /\ route[r] \in {"audio", "stream"})
       THEN /\ response' = [response EXCEPT ![r] = Reply(400, {}, <<>>)]
            /\ pc' = [pc EXCEPT ![r] = "responded"]
       ELSE IF url[r] \in {"other", "nonString"}
         THEN /\ response' = [response EXCEPT ![r] = Reply(500, {}, <<>>)]
              /\ pc' = [pc EXCEPT ![r] = "responded"]
         ELSE /\ pc' = [pc EXCEPT ![r] = "open"]
              /\ UNCHANGED response
  /\ UNCHANGED <<serviceVars, piped, clientGone, route, url, sidx, sink, openPages,
                 parseVars, fetchVars, netVars>>

\* const context = await this.browserService.getContext();
\* const page = await context.newPage();
OpenPage(r) ==
  /\ pc[r] = "open"
  /\ openPages' = openPages + 1
  /\ pc' = [pc EXCEPT ![r] = "goto"]
  /\ UNCHANGED <<serviceVars, piped, clientGone, route, url, response, sidx, sink,
                 parseVars, fetchVars, netVars>>

\* the handler ends with an HTTP response; closes says whether page.close() ran
Finish(r, reply, closes) ==
  /\ response' = [response EXCEPT ![r] = reply]
  /\ pc' = [pc EXCEPT ![r] = "responded"]
  /\ openPages' = IF closes THEN openPages - 1 ELSE openPages

\* page.goto and the reading of the response, up to the call of
\* parsePlaylistXML.  service 380-401, 471-484, 519-537
Goto(r, a) ==
  /\ pc[r] = "goto"
  /\ IF a.kind = "playlist"
       THEN /\ xmlContent' = [xmlContent EXCEPT ![r] = a.doc]
            /\ baseUrl' = [baseUrl EXCEPT ![r] = MetadataBaseUrl]
            /\ ppc' = [ppc EXCEPT ![r] = "start"]
            /\ pc' = [pc EXCEPT ![r] = "parsing"]
            /\ UNCHANGED <<response, openPages>>
       ELSE /\ UNCHANGED <<xmlContent, baseUrl, ppc>>
            /\ IF route[r] = "process" /\ a.kind \in {"text", "json"}
                 THEN Finish(r, Reply(200, {}, <<>>), TRUE)
                 ELSE IF route[r] = "process" /\ a.kind = "badPlaylist"
                   THEN Finish(r, Reply(200, {"playlistDecodeError"}, <<>>), TRUE)
                   ELSE Finish(r, Reply(500, {}, <<>>), TRUE)
  /\ UNCHANGED <<serviceVars, piped, clientGone, route, url, sidx, sink, segments, i,
                 playlistInfo, fetchVars, netVars>>

\* parsePlaylistXML threw: processJamTrack records audioError (408-411),
\* downloadJamTrackAudio and streamJamTrack close the page and rethrow
ParseFailed(r) ==
  /\ pc[r] = "parsing"
  /\ ppc[r] = "threw"
  /\ IF route[r] = "process"
       THEN Finish(r, Reply(200, {"audioError"}, <<>>), TRUE)
       ELSE Finish(r, Reply(500, {}, <<>>), TRUE)
  /\ UNCHANGED <<serviceVars, piped, clientGone, route, url, sidx, sink, parseVars,
                 fetchVars, netVars>>

\* processJamTrack 403-405, downloadJamTrackAudio 538-540: the call of
\* fetchAudioSegments(playlistInfo.segments)
StartFetch(r) ==
  /\ pc[r] = "parsing"
  /\ ppc[r] = "returned"
  /\ route[r] \in {"process", "audio"}
  /\ segmentsArg' = [segmentsArg EXCEPT ![r] = playlistInfo[r].segments]
  /\ fpc' = [fpc EXCEPT ![r] = "loop"]
  /\ idx' = [idx EXCEPT ![r] = 1]
  /\ audioBuffers' = [audioBuffers EXCEPT ![r] = <<>>]
  /\ failedSegments' = [failedSegments EXCEPT ![r] = <<>>]
  /\ pc' = [pc EXCEPT ![r] = "fetching"]
  /\ UNCHANGED <<serviceVars, combinedBuffer, piped, clientGone, route, url, response, sidx, sink,
                 openPages, parseVars, netVars>>

\* fetchAudioSegments returned.  processJamTrack 406-440: audioBuffer and
\* audioSize are kept when truthy, the page is closed; downloadJamTrackAudio
\* 542 returns the buffer (without closing the page), the route sends it
Respond(r) ==
  /\ pc[r] = "fetching"
  /\ fpc[r] = "done"
  /\ IF route[r] = "process"
       THEN Finish(r, Reply(200,
                            (IF combinedBuffer[r] # <<>> THEN {"audioBuffer"} ELSE {})
                              \cup (IF Len(combinedBuffer[r]) # 0 THEN {"audioSize"} ELSE {}),
                            <<>>),
                   TRUE)
       ELSE Finish(r, Reply(200, {}, combinedBuffer[r]), FALSE)
  /\ UNCHANGED <<serviceVars, piped, clientGone, route, url, sidx, sink, parseVars,
                 fetchVars, netVars>>

\* streamJamTrack returned the playlistInfo (its finally closed the page);
\* the route sets the headers.  service 486-492, routes 273-277
StartStream(r) ==
  /\ pc[r] = "parsing"
  /\ ppc[r] = "returned"
  /\ route[r] = "stream"
  /\ openPages' = openPages - 1
  /\ sidx' = [sidx EXCEPT ![r] = 1]
  /\ pc' = [pc EXCEPT ![r] = "streaming"]
  /\ UNCHANGED <<serviceVars, piped, clientGone, route, url, response, sink, parseVars,
                 fetchVars, netVars>>

\* routes 280-282: the relay loop calls axios.get(segment.url,
\* {responseType: "stream"}) on the next segment and awaits it; o is what the
\* segment's server does with the request
StreamSegment(r, o) ==
  /\ pc[r] = "streaming"
  /\ sidx[r] <= Len(playlistInfo[r].segments)
  /\ requests' = [requests EXCEPT ![r] = Append(@, sidx[r])]
  /\ responses' = [responses EXCEPT ![r] = Append(@, o)]
  /\ inflight' = [inflight EXCEPT ![r] = @ \cup {sidx[r]}]
  /\ pc' = [pc EXCEPT ![r] = "get"]
  /\ UNCHANGED <<serviceVars, piped, clientGone, route, url, response, sidx, sink, openPages, net,
                 parseVars, fetchVars>>

\* routes 283-284: the response is piped to res and the handler awaits the
\* 'end' event of the response before the next iteration
relayNoAwait(o) == "streaming"
relayAfterResponse(o) == "piping"

\* the promise of axios.get settled.  A rejection goes to the catch block
\* (285-290) and the loop goes on; a response is piped (283)
StreamResponse(r) ==
  LET o == responses[r][Len(responses[r])]
  IN /\ pc[r] = "get"
     /\ settles(o, defaultTimeout)
     /\ IF o.kind = "reject"
          THEN /\ inflight' = [inflight EXCEPT ![r] = @ \ {sidx[r]}]
               /\ sidx' = [sidx EXCEPT ![r] = @ + 1]
               /\ pc' = [pc EXCEPT ![r] = "streaming"]
               /\ UNCHANGED piped
          ELSE /\ piped' = [piped EXCEPT ![r] = 0]
               /\ pc' = [pc EXCEPT ![r] = relayAfterResponse(o)]
               /\ UNCHANGED <<inflight, sidx>>
     /\ UNCHANGED <<serviceVars, clientGone, route, url, response, sink, openPages,
                    requests, responses, net, parseVars, fetchVars>>

\* pipe (283): the next chunk of the body is written to res; a res closed
\* by the client takes no byte
StreamPipe(r) ==
  LET o == responses[r][Len(responses[r])]
  IN /\ pc[r] = "piping"
     /\ piped[r] < Len(o.data)
     /\ sink' = [sink EXCEPT ![r] =
          IF clientGone[r] >= 0 THEN @ ELSE Append(@, o.data[piped[r] + 1])]
     /\ piped' = [piped EXCEPT ![r] = @ + 1]
     /\ UNCHANGED <<serviceVars, clientGone, route, url, pc, response, sidx, openPages, netVars,
                    parseVars, fetchVars>>

\* the body ended: its 'end' event resolves the promise of line 284 and the
\* loop goes on
StreamSegmentEnd(r) ==
  LET o == responses[r][Len(responses[r])]
  IN /\ pc[r] = "piping"
     /\ o.kind = "ok"
     /\ piped[r] = Len(o.data)
     /\ inflight' = [inflight EXCEPT ![r] = @ \ {sidx[r]}]
     /\ sidx' = [sidx EXCEPT ![r] = @ + 1]
     /\ pc' = [pc EXCEPT ![r] = "streaming"]
     /\ UNCHANGED <<serviceVars, piped, clientGone, route, url, response, sink, openPages, requests,
                    responses, net, parseVars, fetchVars>>

\* the connection of the segment breaks: the response emits 'error' (and
\* 'aborted'), never 'end'.  Nothing listens: the promise of line 284 stays
\* pending and the handler never resumes
StreamBroken(r) ==
  LET o == responses[r][Len(responses[r])]
  IN /\ pc[r] = "piping"
     /\ o.kind = "break"
     /\ piped[r] = Len(o.data)
     /\ inflight' = [inflight EXCEPT ![r] = @ \ {sidx[r]}]
     /\ pc' = [pc EXCEPT ![r] = "awaitEnd"]
     /\ UNCHANGED <<serviceVars, piped, clientGone, route, url, response, sidx, sink,
                    openPages, requests, responses, net, parseVars, fetchVars>>

\* the client closes its connection during the relay.  The route registers
\* no 'close' listener on req or res and passes no signal to axios.get:
\* nothing of the handler's state changes
Disconnect(r) ==
  /\ pc[r] \in {"get", "piping"}
  /\ clientGone[r] < 0
  /\ clientGone' = [clientGone EXCEPT ![r] = Len(requests[r])]
  /\ UNCHANGED <<serviceVars, piped, route, url, pc, response, sidx, sink, openPages, netVars,
                 parseVars, fetchVars>>

\* routes 293: res.end()
StreamEnd(r) ==
  /\ pc[r] = "streaming"
  /\ sidx[r] > Len(playlistInfo[r].segments)
  /\ Finish(r, Reply(200, {}, sink[r]), FALSE)
  /\ UNCHANGED <<serviceVars, piped, clientGone, route, url, sidx, sink, parseVars,
                 fetchVars, netVars>>

(***************************************************************************)
(* Spec: one request to one of the three entry points.                     *)
(***************************************************************************)
Init ==
  /\ route \in {[r \in Req |-> IF r = 1 THEN x ELSE "none"] :
                  x \in {"process", "audio", "stream"}}
  /\ url \in {[r \in Req |-> IF r = 1 THEN u ELSE "missing"] :
                u \in {"missing", "other", "nonString", "qsep"}}
  /\ pc = [r \in Req |-> IF r = 1 THEN "new" ELSE "idle"]
  /\ response = [r \in Req |-> NoResponse]
  /\ sidx = [r \in Req |-> 1]
  /\ sink = [r \in Req |-> <<>>]
  /\ piped = [r \in Req |-> 0]
  /\ clientGone = [r \in Req |-> -1]
  /\ openPages = 0
  /\ xmlContent = [r \in Req |-> NoTemplateDoc]
  /\ baseUrl = [r \in Req |-> <<>>]
  /\ ppc = [r \in Req |-> "idle"]
  /\ segments = [r \in Req |-> <<>>]
  /\ i = [r \in Req |-> NaN]
  /\ playlistInfo = [r \in Req |-> NoPlaylistInfo]
  /\ FetchIdle
  /\ ServicesIdle

Next ==
  \/ Receive(1)
  \/ OpenPage(1)
  \/ \E a \in Answers : Goto(1, a)
  \/ ParseTemplate(1)
  \/ ParseInit(1)
  \/ ParseMedia(1)
  \/ ParseReturn(1)
  \/ ParseFailed(1)
  \/ StartFetch(1)
  \/ \E o \in Outcomes : FetchSegment(1, o)
  \/ FetchSettled(1)
  \/ Combine(1)
  \/ Respond(1)
  \/ StartStream(1)
  \/ \E o \in Outcomes : StreamSegment(1, o)
  \/ StreamResponse(1)
  \/ StreamPipe(1)
  \/ StreamSegmentEnd(1)
  \/ StreamBroken(1)
  \/ Disconnect(1)
  \/ StreamEnd(1)

Spec == Init /\ [][Next]_vars

\* the steps of request r once its playlist is parsed: the calls of axios.get
\* and the continuations the event loop runs when a promise settles or a
\* stream event arrives
Resume(r) ==
  \/ StartFetch(r)
  \/ \E o \in Outcomes : FetchSegment(r, o)
  \/ FetchSettled(r)
  \/ Combine(r)
  \/ Respond(r)
  \/ StartStream(r)
  \/ \E o \in Outcomes : StreamSegment(r, o)
  \/ StreamResponse(r)
  \/ StreamPipe(r)
  \/ StreamSegmentEnd(r)
  \/ StreamBroken(r)
  \/ StreamEnd(r)

\* SpecLive: Spec, the event loop running a continuation whenever one is ready
SpecLive == Init /\ [][Next]_vars /\ WF_vars(Resume(1))

(***************************************************************************)
(* SpecFetch: fetchAudioSegments called on a segment list (request 1) and  *)
(* then on a permutation of the same list, each segment's request having   *)
(* the same outcome in both calls (request 2).                             *)
(***************************************************************************)
\* the segment lists: numbers 0..MaxNum in any order, repetitions included;
\* a first segment numbered 0 may be the init segment
SegmentLists ==
  UNION {
    {[k \in 1..n |->
        [type |-> IF k = 1 /\ ini /\ nums[k] = 0 THEN "init" ELSE "media",
         url |-> <<"u">> \o toString(k),
         number |-> nums[k]]] :
       nums \in [1..n -> 0..MaxNum], ini \in BOOLEAN}
    : n \in 0..MaxLen}

\* a list as parsePlaylistXML builds it: an optional init segment numbered 0,
\* then media segments with consecutive numbers
ParserShaped(list) ==
  LET off == IF Len(list) >= 1 /\ list[1].type = "init" THEN 1 ELSE 0
  IN /\ \A k \in (off + 1)..Len(list) : list[k].type = "media"
     /\ \A k \in (off + 1)..(Len(list) - 1) : list[k + 1].number = list[k].number + 1

\* the response body of the segment at position k of the list
Body(k) == [j \in 1..k |-> 10 * k + j]

\* the outcomes of the requests of a list of n segments
Scripts(n) ==
  {[k \in 1..n |-> IF k \in ok THEN Success(Body(k)) ELSE Failure] : ok \in SUBSET (1..n)}

\* the permutations of 1..n, as sequences
Orders(n) == {p \in [1..n -> 1..n] : \A a, b \in 1..n : p[a] = p[b] => a = b}

InitFetch ==
  /\ \E list \in SegmentLists :
       \E script \in Scripts(Len(list)), p \in Orders(Len(list)) :
         /\ segmentsArg = <<list, [k \in 1..Len(list) |-> list[p[k]]]>>
         /\ net = <<script, [k \in 1..Len(list) |-> script[p[k]]]>>
  /\ fpc = [r \in Req |-> "loop"]
  /\ idx = [r \in Req |-> 1]
  /\ audioBuffers = [r \in Req |-> <<>>]
  /\ failedSegments = [r \in Req |-> <<>>]
  /\ combinedBuffer = [r \in Req |-> <<>>]
  /\ requests = [r \in Req |-> <<>>]
  /\ responses = [r \in Req |-> <<>>]
  /\ inflight = [r \in Req |-> {}]
  /\ xmlContent = [r \in Req |-> NoTemplateDoc]
  /\ baseUrl = [r \in Req |-> <<>>]
  /\ ppc = [r \in Req |-> "idle"]
  /\ segments = [r \in Req |-> <<>>]
  /\ i = [r \in Req |-> NaN]
  /\ playlistInfo = [r \in Req |-> NoPlaylistInfo]
  /\ NoRequest
  /\ ServicesIdle

\* the scripted outcome of the request the call of r is about to make
Scripted(r) == net[r][idx[r]]

FetchFirst == fpc[1] = "loop" /\ idx[1] <= Len(net[1]) /\ FetchSegment(1, Scripted(1))
SettledFirst == FetchSettled(1)
CombineFirst == Combine(1)
FetchSecond ==
  fpc[1] = "done" /\ fpc[2] = "loop" /\ idx[2] <= Len(net[2]) /\ FetchSegment(2, Scripted(2))
SettledSecond == FetchSettled(2)
CombineSecond == fpc[1] = "done" /\ Combine(2)

NextFetch ==
  FetchFirst \/ SettledFirst \/ CombineFirst \/ FetchSecond \/ SettledSecond \/ CombineSecond

SpecFetch == InitFetch /\ [][NextFetch]_vars

(***************************************************************************)
(* SpecRelay: the same playlist requested from POST /api/jam-tracks/audio  *)
(* (request 1) and then from POST /api/jam-tracks/stream (request 2), each *)
(* segment's server answering both with the same whole body or rejecting   *)
(* both.  The requests start where page.goto has delivered the playlist.   *)
(***************************************************************************)
RelayDocs == {GoodDoc, NegativeStartDoc}

InitRelay ==
  /\ \E d \in RelayDocs : xmlContent = [r \in Req |-> d]
  /\ \E script \in Scripts(MaxLen) : net = [r \in Req |-> script]
  /\ baseUrl = [r \in Req |-> MetadataBaseUrl]
  /\ ppc = [r \in Req |-> "start"]
  /\ segments = [r \in Req |-> <<>>]
  /\ i = [r \in Req |-> NaN]
  /\ playlistInfo = [r \in Req |-> NoPlaylistInfo]
  /\ segmentsArg = [r \in Req |-> <<>>]
  /\ fpc = [r \in Req |-> "idle"]
  /\ idx = [r \in Req |-> 1]
  /\ audioBuffers = [r \in Req |-> <<>>]
  /\ failedSegments = [r \in Req |-> <<>>]
  /\ combinedBuffer = [r \in Req |-> <<>>]
  /\ requests = [r \in Req |-> <<>>]
  /\ responses = [r \in Req |-> <<>>]
  /\ inflight = [r \in Req |-> {}]
  /\ route = <<"audio", "stream">>
  /\ url = [r \in Req |-> "qsep"]
  /\ pc = [r \in Req |-> "parsing"]
  /\ response = [r \in Req |-> NoResponse]
  /\ sidx = [r \in Req |-> 1]
  /\ sink = [r \in Req |-> <<>>]
  /\ piped = [r \in Req |-> 0]
  /\ clientGone = [r \in Req |-> -1]
  /\ openPages = 2
  /\ ServicesIdle

\* the call of axios.get, answered as the script says
ScriptedFetch(r) ==
  fpc[r] = "loop" /\ idx[r] <= Len(net[r]) /\ FetchSegment(r, net[r][idx[r]])
ScriptedStream(r) ==
  pc[r] = "streaming" /\ sidx[r] <= Len(net[r]) /\ StreamSegment(r, net[r][sidx[r]])

NextRelay ==
  \/ ParseTemplate(1)
  \/ ParseInit(1)
  \/ ParseMedia(1)
  \/ ParseReturn(1)
  \/ StartFetch(1)
  \/ ScriptedFetch(1)
  \/ FetchSettled(1)
  \/ Combine(1)
  \/ Respond(1)
  \/ pc[1] = "responded" /\ ParseTemplate(2)
  \/ pc[1] = "responded" /\ ParseInit(2)
  \/ pc[1] = "responded" /\ ParseMedia(2)
  \/ pc[1] = "responded" /\ ParseReturn(2)
  \/ StartStream(2)
  \/ ScriptedStream(2)
  \/ StreamResponse(2)
  \/ StreamPipe(2)
  \/ StreamSegmentEnd(2)
  \/ StreamEnd(2)

SpecRelay == InitRelay /\ [][NextRelay]_vars

(***************************************************************************)
(* SpecConc: two requests in progress at the same time, POST               *)
(* /api/jam-tracks/audio (request 1) and POST /api/jam-tracks (request 2), *)
(* each with its own playlist and its own segment servers; their steps     *)
(* interleave in every order.  The requests start where page.goto has      *)
(* delivered the playlist.                                                 *)
(***************************************************************************)
NoInitDoc ==
  Doc([present |-> TRUE, textContent |-> <<"b", "/">>], TRUE, s1000, s1000, <<>>,
      segTemplate, <<"5">>, PT2S)

\* request 1 has three segments to fetch, request 2 two; every segment's
\* server answers with a body or rejects
InitConc ==
  /\ xmlContent = <<GoodDoc, NoInitDoc>>
  /\ net \in [Req -> Scripts(3)]
  /\ baseUrl = [r \in Req |-> MetadataBaseUrl]
  /\ ppc = [r \in Req |-> "start"]
  /\ segments = [r \in Req |-> <<>>]
  /\ i = [r \in Req |-> NaN]
  /\ playlistInfo = [r \in Req |-> NoPlaylistInfo]
  /\ segmentsArg = [r \in Req |-> <<>>]
  /\ fpc = [r \in Req |-> "idle"]
  /\ idx = [r \in Req |-> 1]
  /\ audioBuffers = [r \in Req |-> <<>>]
  /\ failedSegments = [r \in Req |-> <<>>]
  /\ combinedBuffer = [r \in Req |-> <<>>]
  /\ requests = [r \in Req |-> <<>>]
  /\ responses = [r \in Req |-> <<>>]
  /\ inflight = [r \in Req |-> {}]
  /\ route = <<"audio", "process">>
  /\ url = [r \in Req |-> "qsep"]
  /\ pc = [r \in Req |-> "parsing"]
  /\ response = [r \in Req |-> NoResponse]
  /\ sidx = [r \in Req |-> 1]
  /\ sink = [r \in Req |-> <<>>]
  /\ piped = [r \in Req |-> 0]
  /\ clientGone = [r \in Req |-> -1]
  /\ openPages = 2
  /\ ServicesIdle

\* parsePlaylistXML has no await: no step of the other request comes
\* between its steps
Parsing(r) == ppc[r] \in {"init", "media"}

NextConc ==
  \E r \in Req :
    /\ \A q \in Req \ {r} : ~Parsing(q)
    /\ \/ ParseTemplate(r)
       \/ ParseInit(r)
       \/ ParseMedia(r)
       \/ ParseReturn(r)
       \/ StartFetch(r)
       \/ ScriptedFetch(r)
       \/ FetchSettled(r)
       \/ Combine(r)
       \/ Respond(r)

SpecConc == InitConc /\ [][NextConc]_vars

(***************************************************************************)
(* BrowserService.initBrowser (shared/browser/browser.service.ts 21-43),   *)
(* which getContext (48-51) calls and awaits; the callers are the handlers *)
(* of concurrent requests.  SpecBrowser: MaxCalls calls by two callers.    *)
(***************************************************************************)
MaxCalls == 3

\* lines 25-26 and 38-42: the caller enters initBrowser.  With this.browser
\* null it calls chromium.launch and awaits; otherwise it goes to the test
\* of this.context, which throws or returns
InitBrowser(r) ==
  /\ bpc[r] = "idle"
  /\ calls < MaxCalls
  /\ calls' = calls + 1
  /\ IF browser = 0
       THEN /\ launches' = launches + 1
            /\ launched' = [launched EXCEPT ![r] = launches + 1]
            /\ bpc' = [bpc EXCEPT ![r] = "launch"]
            /\ UNCHANGED result
       ELSE /\ bpc' = [bpc EXCEPT ![r] = IF context = 0 THEN "threw" ELSE "returned"]
            /\ result' = [result EXCEPT ![r] = context]
            /\ UNCHANGED <<launches, launched>>
  /\ UNCHANGED <<browser, context, parseVars, fetchVars, netVars, reqVars, serverVars>>

\* lines 26-35: chromium.launch resolved: this.browser is assigned, and
\* this.browser.newContext called and awaited
BrowserLaunched(r) ==
  /\ bpc[r] = "launch"
  /\ browser' = launched[r]
  /\ bpc' = [bpc EXCEPT ![r] = "newContext"]
  /\ UNCHANGED <<context, launches, calls, launched, result,
                 parseVars, fetchVars, netVars, reqVars, serverVars>>

\* lines 32-42: newContext resolved: this.context is assigned and
\* { browser: this.browser, context: this.context } returned
ContextCreated(r) ==
  /\ bpc[r] = "newContext"
  /\ context' = launched[r]
  /\ result' = [result EXCEPT ![r] = launched[r]]
  /\ bpc' = [bpc EXCEPT ![r] = "returned"]
  /\ UNCHANGED <<browser, launches, calls, launched, parseVars, fetchVars, netVars,
                 reqVars, serverVars>>

\* the caller's request is over; a later request calls getContext again
NextCaller(r) ==
  /\ bpc[r] \in {"returned", "threw"}
  /\ calls < MaxCalls
  /\ bpc' = [bpc EXCEPT ![r] = "idle"]
  /\ result' = [result EXCEPT ![r] = 0]
  /\ UNCHANGED <<browser, context, launches, calls, launched,
                 parseVars, fetchVars, netVars, reqVars, serverVars>>

InitBrowserService ==
  /\ ServicesIdle
  /\ xmlContent = [r \in Req |-> NoTemplateDoc]
  /\ baseUrl = [r \in Req |-> <<>>]
  /\ ppc = [r \in Req |-> "idle"]
  /\ segments = [r \in Req |-> <<>>]
  /\ i = [r \in Req |-> NaN]
  /\ playlistInfo = [r \in Req |-> NoPlaylistInfo]
  /\ FetchIdle
  /\ NoRequest

NextBrowser ==
  \E r \in Req :
    \/ InitBrowser(r)
    \/ BrowserLaunched(r)
    \/ ContextCreated(r)
    \/ NextCaller(r)

SpecBrowser == InitBrowserService /\ [][NextBrowser]_vars

(***************************************************************************)
(* SpecParse: parsePlaylistXML called once on every document of DocSet.    *)
(***************************************************************************)
InitParse ==
  /\ xmlContent \in {[r \in Req |-> IF r = 1 THEN d ELSE NoTemplateDoc] : d \in DocSet}
  /\ baseUrl = [r \in Req |-> IF r = 1 THEN <<"f", "/">> ELSE <<>>]
  /\ ppc = [r \in Req |-> IF r = 1 THEN "start" ELSE "idle"]
  /\ segments = [r \in Req |-> <<>>]
  /\ i = [r \in Req |-> NaN]
  /\ playlistInfo = [r \in Req |-> NoPlaylistInfo]
  /\ FetchIdle
  /\ NoRequest
  /\ ServicesIdle

NextParse ==
  \/ ParseTemplate(1)
  \/ ParseInit(1)
  \/ ParseMedia(1)
  \/ ParseReturn(1)

SpecParse == InitParse /\ [][NextParse]_vars


(***************************************************************************)
(* The middleware of the server file (lines 163-191): the rate limiters,   *)
(* the API key authentication, the routers.  A path is the sequence of its *)
(* segments: "/" is <<>>, "/api/item-shop" is <<"api", "item-shop">>.      *)
(* SpecGateway: the requests of one client.                                *)
(***************************************************************************)
MaxRequests == 101
MaxScraping == 21

\* rate-limit.middleware.ts 19-21 and 38-40: windowMs and max
generalMax == 100
scrapingMax == 20

\* express-rate-limit counts the request in the window of the client and
\* answers 429 when the count is above max
limited(hits, max) == hits + 1 > max

\* app.use(prefix, ...): the middleware runs for the paths under prefix and
\* sees req.path without the prefix
Mounted(path, prefix) ==
  Len(path) >= Len(prefix) /\ SubSeq(path, 1, Len(prefix)) = prefix
Rest(path, prefix) == SubSeq(path, Len(prefix) + 1, Len(path))

\* auth.middleware.ts 42-46: req.path === "/health" || req.path === "/" ||
\* req.path.endsWith("/languages")
skipsAuthentication(path) ==
  \/ path = <<"health">>
  \/ path = <<>>
  \/ (path # <<>> /\ path[Len(path)] = "languages")

\* auth.middleware.ts 33-74: "next" or the status answered
authenticateApiKey(apiKey, path, valid) ==
  IF skipsAuthentication(path) THEN "next"
  ELSE IF valid = "" THEN "next"
  ELSE IF apiKey = "" THEN "401"
  ELSE IF apiKey # valid THEN "401"
  ELSE "next"

\* the item shop router: router.get("/"), router.get("/item/:assetType/:itemId"),
\* router.get("/languages"); the handler that answers, "none" when no route
\* matches
itemShopRoutes(method, path) ==
  IF method = "GET" /\ path = <<>> THEN "scrapeItemShop"
  ELSE IF method = "GET" /\ Len(path) = 3 /\ path[1] = "item" THEN "scrapeItem"
  ELSE IF method = "GET" /\ path = <<"languages">> THEN "languages"
  ELSE "none"

\* jam-tracks.routes.ts: router.get("/"), router.post("/"),
\* router.post("/stream"), router.post("/audio")
jamTracksRoutes(method, path) ==
  IF method = "GET" /\ path = <<>> THEN "scrapeJamTracks"
  ELSE IF method = "POST" /\ path = <<>> THEN "processJamTrack"
  ELSE IF method = "POST" /\ path = <<"stream">> THEN "streamJamTrack"
  ELSE IF method = "POST" /\ path = <<"audio">> THEN "downloadJamTrackAudio"
  ELSE "none"

\* lines 169-191: the two routers, then app.get("/health") and app.get("/")
routes(method, path) ==
  IF Mounted(path, <<"api", "item-shop">>)
    THEN itemShopRoutes(method, Rest(path, <<"api", "item-shop">>))
  ELSE IF Mounted(path, <<"api", "jam-tracks">>)
    THEN jamTracksRoutes(method, Rest(path, <<"api", "jam-tracks">>))
  ELSE IF method = "GET" /\ path = <<"health">> THEN "health"
  ELSE IF method = "GET" /\ path = <<>> THEN "root"
  ELSE "none"

\* lines 169-170: scrapingRateLimit is mounted with the two routers
scraping(path) ==
  Mounted(path, <<"api", "item-shop">>) \/ Mounted(path, <<"api", "jam-tracks">>)

\* the endpoints the client calls: the three public ones, and under /api a
\* scraping route, an item whose id is "languages", an audio route, a path
\* with no route
PublicEndpoints ==
  {<<"GET", <<"health">> >>, <<"GET", <<>> >>,
   <<"GET", <<"api", "item-shop", "languages">> >>}
ApiEndpoints ==
  {<<"GET", <<"api", "item-shop">> >>,
   <<"GET", <<"api", "item-shop", "item", "outfits", "languages">> >>,
   <<"POST", <<"api", "jam-tracks", "audio">> >>,
   <<"GET", <<"api", "cache", "status">> >>}

\* the requests of the client: the x-api-key header is absent (""), the
\* key of the server, or another key
Requests ==
  {[method |-> e[1], path |-> e[2], key |-> ""] : e \in PublicEndpoints}
  \cup {[method |-> e[1], path |-> e[2], key |-> k] :
          e \in ApiEndpoints, k \in {"", ApiKey, "x"}}

\* lines 163-191: one request goes through generalRateLimit, then (under
\* /api) authenticateApiKey, then (under the two routers) scrapingRateLimit,
\* then the routes.  answer 200 stands for the answer of the handler reached
Handle(q) ==
  LET auth == IF Mounted(q.path, <<"api">>)
                THEN authenticateApiKey(q.key, Rest(q.path, <<"api">>), validApiKey)
                ELSE "next"
      passed == ~limited(generalHits, generalMax) /\ auth = "next"
      handler == routes(q.method, q.path)
      status == IF limited(generalHits, generalMax) THEN 429
                ELSE IF auth = "401" THEN 401
                ELSE IF scraping(q.path) /\ limited(scrapingHits, scrapingMax) THEN 429
                ELSE IF handler = "none" THEN 404
                ELSE 200
  IN /\ generalHits < MaxRequests
     /\ (passed /\ scraping(q.path)) => scrapingHits < MaxScraping
     /\ generalHits' = generalHits + 1
     /\ scrapingHits' = IF passed /\ scraping(q.path) THEN scrapingHits + 1
                        ELSE scrapingHits
     /\ last' = [method |-> q.method, path |-> q.path, key |-> q.key, status |-> status,
                 handler |-> IF status = 200 THEN handler ELSE "none"]
     /\ UNCHANGED <<validApiKey, shutdownVars, cacheVars, browserVars, parseVars,
                    fetchVars, netVars, reqVars>>

\* windowMs has passed: the two limiters are created together with the
\* same windowMs (rate-limit.middleware.ts 20, 39) and their counts start
\* again together.  last describes the last request of the current window
WindowEnds ==
  /\ generalHits > 0
  /\ generalHits' = 0
  /\ scrapingHits' = 0
  /\ last' = NoLast
  /\ UNCHANGED <<validApiKey, shutdownVars, cacheVars, browserVars, parseVars,
                 fetchVars, netVars, reqVars>>

PipelineIdle ==
  /\ xmlContent = [r \in Req |-> NoTemplateDoc]
  /\ baseUrl = [r \in Req |-> <<>>]
  /\ ppc = [r \in Req |-> "idle"]
  /\ segments = [r \in Req |-> <<>>]
  /\ i = [r \in Req |-> NaN]
  /\ playlistInfo = [r \in Req |-> NoPlaylistInfo]
  /\ FetchIdle
  /\ NoRequest

InitGateway ==
  /\ validApiKey \in {"", ApiKey}
  /\ GateIdle
  /\ BrowserIdle
  /\ Running
  /\ CacheEmpty
  /\ PipelineIdle

NextGateway ==
  \/ \E q \in Requests : Handle(q)
  \/ WindowEnds

SpecGateway == InitGateway /\ [][NextGateway]_vars


(***************************************************************************)
(* The shutdown handler of the server file (lines 234-247) and             *)
(* BrowserService.close (browser.service.ts 56-77).  SpecShutdown: the     *)
(* requests call getContext while SIGINT and SIGTERM arrive.               *)
(***************************************************************************)
\* close() returned (or there was nothing it had to await), shutdown()
\* returned, and the handler calls process.exit(0) (line 243)
Exit(s) ==
  /\ proc' = "exited"
  /\ spc' = [spc EXCEPT ![s] = "done"]

\* browser.service.ts 62-65: if (this.browser) await this.browser.close()
CloseBrowser(s) ==
  IF browser # 0
    THEN /\ spc' = [spc EXCEPT ![s] = "browser"]
         /\ closing' = [closing EXCEPT ![s] = browser]
         /\ UNCHANGED proc
    ELSE /\ Exit(s)
         /\ UNCHANGED closing

\* lines 246-247 and 234-238, browser.service.ts 74-76 and 56-59: the signal
\* arrives, shutdown() calls browserService.shutdown(), which calls
\* close(): if (this.context) await this.context.close()
Signal(s) ==
  /\ proc = "running"
  /\ spc[s] = "idle"
  /\ IF context # 0
       THEN /\ spc' = [spc EXCEPT ![s] = "context"]
            /\ closing' = [closing EXCEPT ![s] = context]
            /\ UNCHANGED proc
       ELSE CloseBrowser(s)
  /\ UNCHANGED <<closedContexts, closedBrowsers, browserVars, gateVars, cacheVars,
                 parseVars, fetchVars, netVars, reqVars>>

\* browser.service.ts 59-61 and 66-68: context.close() settled.  Resolved:
\* this.context = null and close() goes on with the browser; rejected: the
\* catch block logs the error and close() returns
ContextClosed(s, ok) ==
  /\ proc = "running"
  /\ spc[s] = "context"
  /\ IF ok
       THEN /\ closedContexts' = closedContexts \cup {closing[s]}
            /\ context' = 0
            /\ CloseBrowser(s)
       ELSE /\ Exit(s)
            /\ UNCHANGED <<closedContexts, context, closing>>
  /\ UNCHANGED <<closedBrowsers, browser, launches, calls, bpc, launched, result,
                 gateVars, cacheVars, parseVars, fetchVars, netVars, reqVars>>

\* browser.service.ts 63-68: browser.close() settled.  Resolved: the browser
\* and its context are closed, this.browser = null; rejected: the catch
\* block.  In both cases close() returns and the process exits
BrowserClosed(s, ok) ==
  /\ proc = "running"
  /\ spc[s] = "browser"
  /\ IF ok
       THEN /\ closedBrowsers' = closedBrowsers \cup {closing[s]}
            /\ closedContexts' = closedContexts \cup {closing[s]}
            /\ browser' = 0
       ELSE UNCHANGED <<closedBrowsers, closedContexts, browser>>
  /\ Exit(s)
  /\ UNCHANGED <<closing, context, launches, calls, bpc, launched, result,
                 gateVars, cacheVars, parseVars, fetchVars, netVars, reqVars>>

InitShutdown ==
  /\ ServicesIdle
  /\ PipelineIdle

\* process.exit ends every handler: nothing runs once the process has exited
NextShutdown ==
  \/ \E r \in Req : proc = "running" /\ InitBrowser(r)
  \/ \E r \in Req : proc = "running" /\ BrowserLaunched(r)
  \/ \E r \in Req : proc = "running" /\ ContextCreated(r)
  \/ \E r \in Req : proc = "running" /\ NextCaller(r)
  \/ \E s \in Sig : Signal(s)
  \/ \E s \in Sig, ok \in BOOLEAN : ContextClosed(s, ok)
  \/ \E s \in Sig, ok \in BOOLEAN : BrowserClosed(s, ok)

SpecShutdown == InitShutdown /\ [][NextShutdown]_vars


(***************************************************************************)
(* CacheService (features/cache/cache.service.ts).  SpecCache: any         *)
(* sequence of setCacheData, clearCache and getCachedData while time       *)
(* passes.                                                                 *)
(***************************************************************************)
MaxTicks == 5

\* app.config.ts 3-4: CACHE_DURATION_MS: 30 * 60 * 1000
CACHE_DURATION_MS == 1800000

\* the values given to setCacheData, as JSON texts: the number 0, an object,
\* an array
Data == {"0", "{}", "[1]"}

\* !data and !timestamp of JavaScript
falsy(d) == d \in {null, "0", "false", "\"\""}
falsyTimestamp(t) == t = nullTimestamp \/ t = 0

\* lines 34-46 of isCacheValid, for one type: cacheTime > expirationTime
isValidInclusive(c, cacheType, time) ==
  IF falsy(c[cacheType].data) \/ falsyTimestamp(c[cacheType].timestamp) THEN FALSE
  ELSE c[cacheType].timestamp >= time - CACHE_DURATION_MS

isValid(c, cacheType, time) ==
  IF falsy(c[cacheType].data) \/ falsyTimestamp(c[cacheType].timestamp) THEN FALSE
  ELSE c[cacheType].timestamp > time - CACHE_DURATION_MS

\* lines 29-47
isCacheValid(c, cacheType, time) ==
  IF cacheType = "all"
    THEN isValid(c, "itemShop", time) \/ isValid(c, "jamTracks", time)
    ELSE isValid(c, cacheType, time)

\* lines 52-61
getCachedData(c, cacheType, time) ==
  IF cacheType = "all" THEN null
  ELSE IF isCacheValid(c, cacheType, time) THEN c[cacheType].data
  ELSE null

\* the types an operation on cacheType writes: both for "all", and for a
\* missing type in clearCache (line 82)
affected(cacheType) ==
  IF cacheType \in CacheTypes THEN {cacheType} ELSE CacheTypes

\* lines 66-76
SetCacheData(cacheType, data) ==
  /\ cache' = [t \in CacheTypes |->
                 IF t \in affected(cacheType)
                   THEN [data |-> data, timestamp |-> now] ELSE cache[t]]
  /\ written' = [t \in CacheTypes |->
                   IF t \in affected(cacheType)
                     THEN [at |-> now, data |-> data] ELSE written[t]]
  /\ op' = [name |-> "setCacheData", type |-> cacheType, returned |-> null]
  /\ UNCHANGED <<now, gateVars, shutdownVars, browserVars, parseVars, fetchVars,
                 netVars, reqVars>>

\* lines 81-91; a missing cacheType is ""
ClearCache(cacheType) ==
  /\ cache' = [t \in CacheTypes |->
                 IF t \in affected(cacheType)
                   THEN [data |-> null, timestamp |-> nullTimestamp] ELSE cache[t]]
  /\ written' = [t \in CacheTypes |->
                   IF t \in affected(cacheType) THEN NoWrite ELSE written[t]]
  /\ op' = [name |-> "clearCache", type |-> cacheType, returned |-> null]
  /\ UNCHANGED <<now, gateVars, shutdownVars, browserVars, parseVars, fetchVars,
                 netVars, reqVars>>

\* lines 52-61: a call of getCachedData and what it returns
GetCachedData(cacheType) ==
  /\ op' = [name |-> "getCachedData", type |-> cacheType,
            returned |-> getCachedData(cache, cacheType, now)]
  /\ UNCHANGED <<cache, now, written, gateVars, shutdownVars, browserVars, parseVars,
                 fetchVars, netVars, reqVars>>

\* time passes; op is the operation called at the present instant
Tick ==
  /\ now < MaxTicks * TickMs
  /\ now' = now + TickMs
  /\ op' = NoOp
  /\ UNCHANGED <<cache, written, gateVars, shutdownVars, browserVars, parseVars,
                 fetchVars, netVars, reqVars>>

InitCache ==
  /\ ServicesIdle
  /\ PipelineIdle

NextCache ==
  \/ \E t \in CacheTypes \cup {"all"}, d \in Data : SetCacheData(t, d)
  \/ \E t \in CacheTypes \cup {"all", ""} : ClearCache(t)
  \/ \E t \in CacheTypes \cup {"all"} : GetCachedData(t)
  \/ Tick

SpecCache == InitCache /\ [][NextCache]_vars


(***************************************************************************)
(* Claims about parsePlaylistXML (checked under SpecParse).                *)
(***************************************************************************)
\* the media segments of a segment list
MediaOf(segs) == SelectSeq(segs, LAMBDA sg : sg.type = "media")
InitOf(segs) == SelectSeq(segs, LAMBDA sg : sg.type = "init")

\* every occurrence of pat in s replaced by rep, left to right
RECURSIVE ReplaceAll(_, _, _)
ReplaceAll(s, pat, rep) ==
  LET k == IndexOf(s, pat)
  IN IF k = 0 THEN s
     ELSE SubSeq(s, 1, k - 1) \o rep
            \o ReplaceAll(SubSeq(s, k + Len(pat), Len(s)), pat, rep)

\* the mediaPresentationDuration attribute has the form PT<seconds>S
HasTotalDuration(doc) ==
  doc.mediaPresentationDuration # <<>> /\ match(doc.mediaPresentationDuration) # <<0, 0>>

\* C5: for every manifest the parser returns, totalSegments is an integer >= 1
\* and equals ceil(totalDuration / segmentDuration), totalDuration being the
\* seconds of the PT<seconds>S attribute (the segment duration without it).
C5_SegmentCountAtLeastOne ==
  \A r \in Req :
    ppc[r] = "returned" =>
      LET doc == xmlContent[r]
          total == IF HasTotalDuration(doc)
                     THEN parseFloat(SubSeq(doc.mediaPresentationDuration,
                                            match(doc.mediaPresentationDuration)[1],
                                            match(doc.mediaPresentationDuration)[2]))
                     ELSE playlistInfo[r].segmentDuration
      IN /\ IsInteger(playlistInfo[r].totalSegments)
         /\ playlistInfo[r].totalSegments.n >= 1
         /\ playlistInfo[r].totalSegments = Ceil(Div(total, playlistInfo[r].segmentDuration))

\* C6: the returned list is one init segment numbered 0 first iff the
\* initialization template is not empty, followed by exactly totalSegments
\* media segments numbered startNumber, startNumber + 1, ... in this order.
C6_GeneratedSegmentList ==
  \A r \in Req :
    ppc[r] = "returned" =>
      LET doc == xmlContent[r]
          segs == playlistInfo[r].segments
          hasInit == doc.initialization # <<>>
          off == IF hasInit THEN 1 ELSE 0
          start == IF doc.startNumber = <<>> THEN Num(1, 1) ELSE parseInt(doc.startNumber)
          count == playlistInfo[r].totalSegments
      IN /\ hasInit <=> (Len(segs) >= 1 /\ segs[1].type = "init" /\ segs[1].number = 0)
         /\ Len(InitOf(segs)) = off
         /\ IsInteger(count) /\ IsInteger(start)
         /\ Len(segs) = off + count.n
         /\ \A k \in 1..(Len(segs) - off) :
              segs[off + k].type = "media" /\ segs[off + k].number = start.n + k - 1

\* C7: without a PT<seconds>S total duration the parser returns a manifest
\* whose total duration is the segment duration, with exactly one media segment.
C7_FallbackOneSegment ==
  \A r \in Req :
    (ppc[r] = "returned" /\ ~HasTotalDuration(xmlContent[r])) =>
      /\ playlistInfo[r].totalDuration = playlistInfo[r].segmentDuration
      /\ playlistInfo[r].totalSegments = Num(1, 1)
      /\ Len(MediaOf(playlistInfo[r].segments)) = 1

\* C9: the URL generated for a media segment is the base URL followed by the
\* media template with each $RepresentationID$ replaced by "0" and each
\* $Number$ by the decimal sequence number, everything else unchanged.
C9_TemplateSubstitution ==
  \A r \in Req :
    ppc[r] = "returned" =>
      \A k \in 1..Len(playlistInfo[r].segments) :
        LET sg == playlistInfo[r].segments[k]
        IN sg.type = "media" =>
             sg.url = playlistInfo[r].baseUrl
                        \o ReplaceAll(ReplaceAll(xmlContent[r].media, RepresentationID, <<"0">>),
                                      Number, toString(sg.number))

\* C10: the sequence numbers of a returned manifest are strictly increasing
\* along the list (hence unique).
C10_StrictlyIncreasingNumbers ==
  \A r \in Req :
    ppc[r] = "returned" =>
      \A k \in 1..(Len(playlistInfo[r].segments) - 1) :
        playlistInfo[r].segments[k].number < playlistInfo[r].segments[k + 1].number

\* C17: the totalDuration of a returned manifest is the total presentation
\* duration the segment count was derived from (the seconds of the
\* PT<seconds>S attribute when there is one): totalSegments =
\* ceil(totalDuration / segmentDuration).  Stated for a positive segment
\* duration.
C17_TotalDurationReturned ==
  \A r \in Req :
    (/\ ppc[r] = "returned"
     /\ IsFinite(playlistInfo[r].segmentDuration)
     /\ playlistInfo[r].segmentDuration.n > 0) =>
      LET mpd == xmlContent[r].mediaPresentationDuration
      IN /\ playlistInfo[r].totalSegments
              = Ceil(Div(playlistInfo[r].totalDuration, playlistInfo[r].segmentDuration))
         /\ HasTotalDuration(xmlContent[r]) =>
              playlistInfo[r].totalDuration
                = parseFloat(SubSeq(mpd, match(mpd)[1], match(mpd)[2]))

Succeeded(r) == {j \in 1..Len(responses[r]) : responses[r][j].ok}

\* the segment number of the j-th request of r
NumberOfRequest(r, j) == segmentsArg[r][requests[r][j]].number

\* the orders in which the elements of a finite set S can be arranged
Arrangements(S) ==
  {p \in [1..Cardinality(S) -> S] : \A a, b \in 1..Cardinality(S) : p[a] = p[b] => a = b}

\* the bodies of the requests p[1], p[2], ... of r, one after the other
RECURSIVE Concatenation(_, _)
Concatenation(r, p) ==
  IF p = <<>> THEN <<>>
  ELSE responses[r][p[1]].data \o Concatenation(r, Tail(p))

RECURSIVE SumOfLengths(_, _)
SumOfLengths(r, S) ==
  IF S = {} THEN 0
  ELSE LET j == CHOOSE x \in S : TRUE
       IN Len(responses[r][j].data) + SumOfLengths(r, S \ {j})

\* C1: with at least one success, the buffer returned is the concatenation of
\* the successfully fetched bodies in ascending segment number, each once,
\* nothing inserted for a failed segment; its length is the sum of their lengths.
C1_ConcatenationOfSuccesses ==
  \A r \in Req :
    (fpc[r] = "done" /\ Succeeded(r) # {}) =>
      /\ Len(combinedBuffer[r]) = SumOfLengths(r, Succeeded(r))
      /\ \E p \in Arrangements(Succeeded(r)) :
           /\ \A a \in 1..(Len(p) - 1) :
                NumberOfRequest(r, p[a]) <= NumberOfRequest(r, p[a + 1])
           /\ combinedBuffer[r] = Concatenation(r, p)

\* a call that returned after a failure and two successes received in
\* descending segment number
C1_Witness ==
  /\ fpc[1] = "done"
  /\ \E j \in 1..Len(responses[1]) : ~responses[1][j].ok
  /\ \E a, b \in Succeeded(1) : a < b /\ NumberOfRequest(1, a) > NumberOfRequest(1, b)

\* C2: the buffer returned does not depend on the order of the segment list:
\* the call on a permutation of a list built by the parser, with the same
\* outcome for every segment, returns the same bytes.
C2_OrderIndependent ==
  (fpc[1] = "done" /\ fpc[2] = "done" /\ ParserShaped(segmentsArg[1])) =>
    combinedBuffer[1] = combinedBuffer[2]

\* C4: no segment is requested twice, and when the call returns every
\* segment of the list has been requested, whatever failed before it.
C4_EachSegmentRequestedOnce ==
  \A r \in Req :
    /\ \A a, b \in 1..Len(requests[r]) : requests[r][a] = requests[r][b] => a = b
    /\ fpc[r] = "done" =>
         {requests[r][j] : j \in 1..Len(requests[r])} = 1..Len(segmentsArg[r])

\* a call that returned although the request of its first segment failed,
\* the later segments having been requested
C4_Witness ==
  /\ fpc[1] = "done"
  /\ Len(segmentsArg[1]) >= 2
  /\ ~responses[1][1].ok
  /\ Len(requests[1]) = Len(segmentsArg[1])


(***************************************************************************)
(* Claims about the entry points (checked under Spec).                     *)
(***************************************************************************)
\* C3: when no segment was successfully fetched, fetchAudioSegments raises
\* instead of returning a buffer, so that a request to POST /api/jam-tracks
\* or POST /api/jam-tracks/audio whose segment requests all failed is not
\* answered with a successful (empty) audio result: it reports the error.
C3_NoAudioDataError ==
  \A r \in Req :
    (pc[r] = "responded" /\ fpc[r] = "done" /\ Succeeded(r) = {}) =>
      IF route[r] = "process" THEN "audioError" \in response[r].data
      ELSE response[r].status = 500

\* C8: a document without SegmentTemplate makes parsePlaylistXML throw: it
\* never returns, builds no segment, and the request issues no segment
\* request, whatever the entry point; the entry point reports the error.
C8_NoTemplateNoFetch ==
  \A r \in Req :
    (ppc[r] # "idle" /\ ~xmlContent[r].SegmentTemplate) =>
      /\ ppc[r] \in {"start", "threw"}
      /\ segments[r] = <<>>
      /\ playlistInfo[r] = NoPlaylistInfo
      /\ fpc[r] = "idle"
      /\ requests[r] = <<>>
      /\ sink[r] = <<>>
      /\ pc[r] = "responded" =>
           IF route[r] = "process" THEN response[r] = Reply(200, {"audioError"}, <<>>)
           ELSE response[r].status = 500

\* C11: when the init segment was generated and successfully fetched, the
\* buffer returned by fetchAudioSegments begins with the bytes of the init
\* segment, the bytes of the fetched media segments following them.
C11_InitBytesFirst ==
  \A r \in Req :
    fpc[r] = "done" =>
      \A j \in Succeeded(r) :
        segmentsArg[r][requests[r][j]].type = "init" =>
          \E p \in Arrangements(Succeeded(r) \ {j}) :
            combinedBuffer[r] = responses[r][j].data \o Concatenation(r, p)

\* the bytes delivered by the servers for the requests of r before the last
\* one, in the order of the requests
PriorBytes(r) ==
  Concatenation(r, SelectSeq([j \in 1..(Len(requests[r]) - 1) |-> j],
                             LAMBDA j : responses[r][j].kind \in {"ok", "break"}))

\* C12: a request has at most one segment request in flight, the last one
\* issued; when it is issued every earlier segment has been received whole or
\* has failed (buffered), respectively has had all its bytes written to the
\* sink or has failed (streaming).
C12_OneSegmentInFlight ==
  \A r \in Req :
    /\ Cardinality(inflight[r]) <= 1
    /\ \A j \in inflight[r] : j = requests[r][Len(requests[r])]
    /\ fpc[r] # "idle" =>
         Len(audioBuffers[r]) + Len(failedSegments[r]) >= Len(requests[r]) - 1
    /\ (route[r] = "stream" /\ clientGone[r] < 0 /\ requests[r] # <<>>) =>
         /\ Len(sink[r]) >= Len(PriorBytes(r))
         /\ SubSeq(sink[r], 1, Len(PriorBytes(r))) = PriorBytes(r)

\* the relay has issued the request of its second segment after it wrote
\* the two bytes of the first one
C12_Witness ==
  /\ route[1] = "stream"
  /\ pc[1] = "get"
  /\ Len(requests[1]) = 2
  /\ responses[1][1] = Success(<<2, 3>>)
  /\ inflight[1] = {2}

\* the relay of r is at a segment whose retrieval fails: its request is
\* rejected, or its response breaks before the end
AtFailedSegment(r) ==
  /\ route[r] = "stream"
  /\ pc[r] \in {"get", "piping", "awaitEnd"}
  /\ responses[r][Len(responses[r])].kind \in {"reject", "break"}

\* C13: in the relay, when the retrieval of a segment fails (its request is
\* rejected, or its response breaks before the end) the relay goes on: it
\* leaves the segment for the next one or, after the last one, ends the
\* response (unless the client disconnects).
C13_FailedSegmentSkipped ==
  \A r \in Req :
    (AtFailedSegment(r) /\ clientGone[r] < 0) ~> (~AtFailedSegment(r) \/ clientGone[r] >= 0)

\* C15: every segment retrieval is bounded: a segment request in flight,
\* in buffered assembly or in the relay, is eventually over (answered,
\* failed, or abandoned after the per-segment timeout), whatever the server
\* does (the client staying connected).
C15_SegmentRetrievalBounded ==
  \A r \in Req :
    (inflight[r] # {} /\ clientGone[r] < 0) ~> (inflight[r] = {} \/ clientGone[r] >= 0)

\* C16: once the client of a relay has disconnected, no segment request of
\* that relay is in flight (the one that was is abandoned) and no further
\* segment request is issued.
C16_DisconnectAbandonsFetches ==
  \A r \in Req :
    clientGone[r] >= 0 => (inflight[r] = {} /\ Len(requests[r]) = clientGone[r])

\* C14: for the same playlist and the same outcome of every segment (its
\* whole body, or a rejection), the bytes the relay wrote to the sink are the
\* buffer the buffered assembly returned, and they are the bodies of the
\* successful segments in ascending segment number.
C14_RelayEqualsBuffered ==
  (pc[1] = "responded" /\ pc[2] = "responded" /\ route = <<"audio", "stream">>) =>
    /\ response[2].body = response[1].body
    /\ \E p \in Arrangements(Succeeded(2)) :
         /\ \A a \in 1..(Len(p) - 1) :
              playlistInfo[2].segments[requests[2][p[a]]].number
                < playlistInfo[2].segments[requests[2][p[a + 1]]].number
         /\ sink[2] = Concatenation(2, p)

\* the segment list parsePlaylistXML returns for doc when called alone
SoloSegments(doc, base) ==
  (IF initialization(doc) # <<>> THEN <<initSegment(doc, base)>> ELSE <<>>)
    \o [k \in 1..totalSegments(doc).n |->
          mediaSegment(doc, base, startNumber(doc).n + k - 1)]

\* the buffers fetchAudioSegments has pushed when, called alone on the list
\* segs with the servers answering as script says, it is at position k
SoloBuffers(segs, script, k) ==
  LET got == SelectSeq([j \in 1..(k - 1) |-> j], LAMBDA j : script[j].ok)
  IN [a \in 1..Len(got) |->
        [data |-> script[got[a]].data, number |-> segs[got[a]].number,
         type |-> segs[got[a]].type]]

\* C19: two requests whose steps interleave do not interfere: at every
\* point the manifest, the list of fetched buffers and the assembled buffer
\* of each request are those of the request running alone on its own
\* playlist with its own segment servers.
C19_NoInterference ==
  \A r \in Req :
    LET solo == SoloSegments(xmlContent[r], baseUrl[r])
    IN /\ ppc[r] = "returned" =>
            playlistInfo[r] = PlaylistInfo(xmlContent[r], baseUrl[r], solo)
       /\ fpc[r] \in {"loop", "await"} =>
            /\ segmentsArg[r] = solo
            /\ audioBuffers[r] = SoloBuffers(solo, net[r], idx[r])
       /\ fpc[r] = "done" =>
            /\ audioBuffers[r] = sort(SoloBuffers(solo, net[r], Len(solo) + 1))
            /\ combinedBuffer[r] = combine(sort(SoloBuffers(solo, net[r], Len(solo) + 1)))
       /\ (pc[r] = "responded" /\ route[r] = "audio") =>
            response[r].body = combine(sort(SoloBuffers(solo, net[r], Len(solo) + 1)))

\* both requests have fetched a segment and both have a segment request in
\* flight
C19_Witness ==
  /\ fpc[1] = "await" /\ fpc[2] = "await"
  /\ audioBuffers[1] # <<>> /\ audioBuffers[2] # <<>>
  /\ xmlContent[1] # xmlContent[2]
  /\ net[1] # net[2]

\* C20: one browser for the application: whatever the interleaving of the
\* calls of initBrowser, chromium.launch is called at most once, no call
\* fails, and the calls that returned all returned the same context.
C20_SingleBrowser ==
  /\ launches <= 1
  /\ \A r \in Req : bpc[r] # "threw"
  /\ \A r, q \in Req :
       (bpc[r] = "returned" /\ bpc[q] = "returned") => result[r] = result[q]

\* a streaming request answered after parsePlaylistXML threw
C8_Witness ==
  /\ route[1] = "stream"
  /\ pc[1] = "responded"
  /\ ppc[1] = "threw"
  /\ ~xmlContent[1].SegmentTemplate

\* C23: POST /audio and POST /stream answer 400 whenever the body url is
\* missing or does not start with qsep://, and then no page is opened and no
\* segment is requested
C23_InvalidUrlRejected ==
  \A r \in Req :
    (route[r] \in {"audio", "stream"} /\ url[r] # "qsep" /\ pc[r] # "new") =>
      /\ pc[r] = "responded"
      /\ response[r].status = 400
      /\ openPages = 0
      /\ requests[r] = <<>>

\* C26: every page an operation opened is closed by the time the operation
\* has returned or thrown: with no request in progress no page is open
C26_NoPageLeftOpen ==
  (\A r \in Req : pc[r] \in {"idle", "new", "responded"}) => openPages = 0

\* C27: processJamTrack absorbs audio failures: a response to a JSON answer
\* with a playlist reports success and carries audioBuffer and audioSize, or
\* audioError, or playlistDecodeError
C27_AudioFailureAbsorbed ==
  \A r \in Req :
    (route[r] = "process" /\ pc[r] = "responded" /\ ppc[r] # "idle") =>
      /\ response[r].status = 200
      /\ \/ {"audioBuffer", "audioSize"} \subseteq response[r].data
         \/ "audioError" \in response[r].data
         \/ "playlistDecodeError" \in response[r].data

\* C25: parsePlaylistXML terminates with a finite segment list for every
\* document with a SegmentTemplate: whenever the for loop is about to run
\* another iteration its upper bound startNumber + totalSegments is a finite
\* number, so the distance from i to the bound decreases to nothing
C25_ParsingTerminates ==
  \A r \in Req :
    (ppc[r] = "media" /\ loopCondition(xmlContent[r], i[r])) =>
      IsFinite(Add(startNumber(xmlContent[r]), totalSegments(xmlContent[r])))

\* C30: the manifest is read-only once built: no step of fetchAudioSegments
\* or of the relay changes the PlaylistInfo parsePlaylistXML returned (its
\* segment list and its segment count) or the segment list handed to
\* fetchAudioSegments
C30_ManifestReadOnly ==
  [][\A r \in Req :
       (ppc[r] = "returned" /\ pc[r] \in {"fetching", "streaming", "get", "piping"}) =>
         /\ playlistInfo'[r] = playlistInfo[r]
         /\ segmentsArg'[r] = segmentsArg[r]
         /\ route[r] # "stream" => segmentsArg'[r] = playlistInfo'[r].segments]_vars

C30_Witness ==
  /\ \E r \in Req :
       /\ pc[r] = "responded"
       /\ route[r] \in {"audio", "stream"}
       /\ Len(playlistInfo[r].segments) = 3
       /\ Len(requests[r]) = 3
       /\ \E k \in 1..3 : ~responses[r][k].ok
       /\ \E k \in 1..3 : responses[r][k].ok
       /\ route[r] = "audio" => segmentsArg[r] = playlistInfo[r].segments

\* the endpoints the documentation lists as public
Public(q) == <<q.method, q.path>> \in PublicEndpoints

\* C21: with an API key configured, a request under /api other than GET
\* /api/item-shop/languages that carries no key or a wrong key is answered
\* 401 (or 429 by the general limiter, which runs first) and reaches no handler
C21_KeyRequired ==
  (validApiKey # "" /\ last # NoLast /\ Mounted(last.path, <<"api">>)
     /\ ~Public(last) /\ last.key # validApiKey) =>
    /\ last.handler = "none"
    /\ last.status \in {401, 429}

\* the request passed through scrapingRateLimit
ScrapingCounted(q) ==
  /\ scraping(q.path)
  /\ q.status # 401
  /\ generalHits <= generalMax

\* C22: the health check and the languages endpoint are never answered 429;
\* a request to a scraping endpoint is answered 429 exactly when it is beyond
\* the 20th of its window (or the 100th of all requests), any other request
\* exactly when it is beyond the 100th
C22_RateLimits ==
  last # NoLast =>
    IF last.method = "GET"
         /\ last.path \in {<<"health">>, <<"api", "item-shop", "languages">>}
      THEN last.status # 429
      ELSE last.status = 429 <=>
             \/ generalHits > generalMax
             \/ ScrapingCounted(last) /\ scrapingHits > scrapingMax

\* C24: the shutdown handler lets the requests in progress complete before
\* the process exits: when the process has exited no caller of getContext
\* is still inside its request
C24_RequestsCompleteBeforeExit ==
  proc = "exited" => \A r \in Req : bpc[r] = "idle"

\* C28: after close() has returned, the context and the browser are closed
\* and cleared, also when closing the context threw (no call of initBrowser
\* being in progress meanwhile)
C28_CloseCompletesCleanup ==
  (proc = "exited" /\ \A r \in Req : bpc[r] \in {"idle", "returned", "threw"}) =>
    /\ context = 0
    /\ browser = 0
    /\ \A s \in Sig : closing[s] # 0 => closing[s] \in closedBrowsers

\* the most recent setCacheData affecting t came less than 30 minutes ago
\* and no clearCache affecting t came since
Fresh(t) ==
  /\ written[t] # NoWrite
  /\ now - written[t].at < CACHE_DURATION_MS

\* set or clear of one type leaves the entry of the other type unchanged
OtherTypeUnchanged ==
  \A t \in CacheTypes :
    (op'.name \in {"setCacheData", "clearCache"} /\ op'.type = t) =>
      \A u \in CacheTypes \ {t} : cache'[u] = cache[u]

\* C29 as stated: getCachedData(t) returns the stored data exactly when the
\* entry is fresh, and null otherwise; set or clear of one type leaves the
\* other type's entry unchanged
C29_CacheTTL ==
  /\ [](\A t \in CacheTypes :
          getCachedData(cache, t, now) = IF Fresh(t) THEN written[t].data ELSE null)
  /\ [][OtherTypeUnchanged]_vars

\* C29, amended: getCachedData(t) returns the stored data exactly when the
\* entry is fresh and the stored data is truthy, and null otherwise; set or
\* clear of one type leaves the other type's entry unchanged
C29_CacheTTLOfTruthyData ==
  /\ [](\A t \in CacheTypes :
          getCachedData(cache, t, now) =
            IF Fresh(t) /\ ~falsy(written[t].data) THEN written[t].data ELSE null)
  /\ [][OtherTypeUnchanged]_vars

\* a get returned data stored 20 minutes before, and a get of the other
\* type, stored 30 minutes before, would return null
C29_Witness ==
  /\ op.name = "getCachedData"
  /\ op.type = "itemShop"
  /\ op.returned = "{}"
  /\ now - written["itemShop"].at = 2 * TickMs
  /\ written["jamTracks"] # NoWrite
  /\ now - written["jamTracks"].at = 3 * TickMs
  /\ ~falsy(written["jamTracks"].data)
  /\ getCachedData(cache, "jamTracks", now) = null

====
